---- MODULE Spec2Model ----
(***************************************************************************)
(* swisslos-crawler: the HTML-to-LottoDraw extraction of SwissLottoClient   *)
(* (parse_draw_from_html) and the three retrieval operations around it.     *)
(*                                                                          *)
(* Text is modelled as a tuple of one-character strings, a document as the  *)
(* node lists its four selectors match (in document order), a date as a     *)
(* record [y, m, d], and Option<T> as a sequence of length 0 or 1.          *)
(* src/src/lib.rs and src/src/swiss_lotto.rs both define the client; the    *)
(* variable impl says which of the two a behaviour runs.                    *)
(***************************************************************************)
EXTENDS Integers, Sequences, FiniteSets, TLC

VARIABLES
    impl,          \* "lib" (src/src/lib.rs) or "swiss_lotto" (src/src/swiss_lotto.rs)
    threads,       \* the threads that invoke the client
    today,         \* Utc::today().naive_utc(), the wall-clock date
    ticks,         \* how many times midnight has passed
    selectors,     \* lazy_static table: selector name -> initialised?
    inits,         \* selector name -> how often its initialiser has run
    pc,            \* thread -> position in the operation it runs
    op,            \* thread -> the operation it runs
    arg,           \* thread -> the date argument of the operation (Option)
    request,       \* thread -> the HTTP request it has in flight (Option)
    html,          \* thread -> the document text handed to extraction
    date,          \* thread -> the expected date handed to extraction (Option)
    seen_today,    \* thread -> the date LottoDraw::default() read (Option)
    lotto_draw,    \* thread -> the local record under construction
    result         \* thread -> outcome of the operation (Option)

vars == <<impl, threads, today, ticks, selectors, inits, pc, op,
          arg, request, html, date, seen_today, lotto_draw, result>>

(***************************************************************************)
(* Bounds of the model.                                                     *)
(***************************************************************************)
MaxTicks == 1
MaxDifferences == 2

(***************************************************************************)
(* Option<T>                                                                *)
(***************************************************************************)
None == <<>>
Some(x) == <<x>>
IsSome(o) == Len(o) = 1
Unwrap(o) == o[1]

(***************************************************************************)
(* Text and integers.                                                       *)
(***************************************************************************)
Digits == <<"0", "1", "2", "3", "4", "5", "6", "7", "8", "9">>

IsDigit(c) == \E i \in 1..10 : Digits[i] = c

DigitVal(c) == (CHOOSE i \in 1..10 : Digits[i] = c) - 1

\* u8::MAX + 1: `as u8` keeps a count modulo this, parse::<u8> overflows at it.
U8Modulus == 256

as_u8(n) == n % U8Modulus

\* format!("{}", n) of an unsigned integer: its decimal digits.
RECURSIVE Display(_)
Display(n) ==
    IF n < 10 THEN <<Digits[n + 1]>>
    ELSE Append(Display(n \div 10), Digits[(n % 10) + 1])

\* {:02} / {:04}: decimal digits, zero-padded on the left to the width.
RECURSIVE ZeroPad(_, _)
ZeroPad(s, width) == IF Len(s) >= width THEN s ELSE ZeroPad(<<"0">> \o s, width)

\* str::parse::<u8>() (core::num from_str_radix, radix 10): an optional
\* leading "+", then at least one digit, every character a digit, the value
\* accumulated with checked_mul / checked_add. Some(value) or None (Err).
RECURSIVE accumulate_u8(_, _, _)
accumulate_u8(s, i, acc) ==
    IF i > Len(s) THEN Some(acc)
    ELSE IF ~IsDigit(s[i]) THEN None
    ELSE IF acc * 10 + DigitVal(s[i]) >= U8Modulus THEN None
    ELSE accumulate_u8(s, i + 1, acc * 10 + DigitVal(s[i]))

parse_u8(s) ==
    IF Len(s) = 0 THEN None
    ELSE IF s[1] \in {"+", "-"} /\ Len(s) = 1 THEN None
    ELSE IF s[1] = "+" THEN accumulate_u8(s, 2, 0)
    ELSE accumulate_u8(s, 1, 0)

(***************************************************************************)
(* Dates (chrono::NaiveDate).                                               *)
(***************************************************************************)
YMD(y, m, d) == [y |-> y, m |-> m, d |-> d]

IsLeap(y) == (y % 4 = 0 /\ y % 100 # 0) \/ y % 400 = 0

DaysInMonth(y, m) ==
    IF m = 2 THEN (IF IsLeap(y) THEN 29 ELSE 28)
    ELSE IF m \in {4, 6, 9, 11} THEN 30 ELSE 31

\* NaiveDate::from_ymd_opt
ValidYMD(y, m, d) ==
    /\ y \in -262144..262143
    /\ m \in 1..12
    /\ d \in 1..DaysInMonth(y, m)

\* The day after (the wall clock passing midnight).
succ(dt) ==
    IF dt.d < DaysInMonth(dt.y, dt.m) THEN YMD(dt.y, dt.m, dt.d + 1)
    ELSE IF dt.m < 12 THEN YMD(dt.y, dt.m + 1, 1)
    ELSE YMD(dt.y + 1, 1, 1)

\* date.format("%d.%m.%Y").to_string()
format_dmy(dt) ==
    ZeroPad(Display(dt.d), 2) \o <<".">> \o ZeroPad(Display(dt.m), 2)
        \o <<".">> \o ZeroPad(Display(dt.y), 4)

\* chrono::format::scan::number(s, min = 1, max): between 1 and max digits
\* starting at position i. [ok, val, next].
RECURSIVE scan_digits(_, _, _, _)
scan_digits(s, i, left, acc) ==
    IF left = 0 \/ i > Len(s) \/ ~IsDigit(s[i]) THEN [val |-> acc, next |-> i]
    ELSE scan_digits(s, i + 1, left - 1, acc * 10 + DigitVal(s[i]))

scan_number(s, i, max) ==
    LET r == scan_digits(s, i, max, 0)
    IN  [ok |-> r.next > i, val |-> r.val, next |-> r.next]

\* Numeric items skip leading white space.
RECURSIVE trim_left(_, _)
trim_left(s, i) == IF i <= Len(s) /\ s[i] = " " THEN trim_left(s, i + 1) ELSE i

\* %d and %m: an unsigned number of at most two digits.
scan_unsigned(s, i, width) == scan_number(s, trim_left(s, i), width)

\* %Y: at most four digits, or a sign followed by any number of digits.
scan_year(s, i) ==
    LET j == trim_left(s, i)
    IN  IF j <= Len(s) /\ s[j] = "-"
        THEN LET r == scan_number(s, j + 1, Len(s))
             IN  [ok |-> r.ok, val |-> 0 - r.val, next |-> r.next]
        ELSE IF j <= Len(s) /\ s[j] = "+" THEN scan_number(s, j + 1, Len(s))
        ELSE scan_number(s, j, 4)

scan_literal(s, i, c) == i <= Len(s) /\ s[i] = c

\* NaiveDate::parse_from_str(s, "%d.%m.%Y"): Some(date) or None (Err(ParseError)).
parse_from_str(s) ==
    LET dd == scan_unsigned(s, 1, 2)
    IN  IF ~dd.ok \/ ~scan_literal(s, dd.next, ".") THEN None
        ELSE LET mm == scan_unsigned(s, dd.next + 1, 2)
             IN  IF ~mm.ok \/ ~scan_literal(s, mm.next, ".") THEN None
                 ELSE LET yy == scan_year(s, mm.next + 1)
                      IN  IF ~yy.ok \/ yy.next # Len(s) + 1 THEN None
                          ELSE IF ~ValidYMD(yy.val, mm.val, dd.val) THEN None
                          ELSE Some(YMD(yy.val, mm.val, dd.val))

(***************************************************************************)
(* LottoDraw, Errors and the outcome of an operation.                       *)
(***************************************************************************)
\* numbers: [u8; 6]
NumbersLen == 6

\* mutant: the default date is the epoch instead of today
LottoDraw_default_epoch(td) ==
    [date |-> YMD(1970, 1, 1), numbers |-> [i \in 1..NumbersLen |-> 0], lucky |-> 0,
     replay |-> 0]

\* impl Default for LottoDraw, with Utc::today().naive_utc() = td
LottoDraw_default(td) ==
    [date |-> td, numbers |-> [i \in 1..NumbersLen |-> 0], lucky |-> 0, replay |-> 0]

UnexpectedParsingError(msg, text) ==
    [variant |-> "UnexpectedParsingError", msg |-> msg, html |-> text]
SuppliedDateHasNoDraw == [variant |-> "SuppliedDateHasNoDraw"]
DateParsingError == [variant |-> "DateParsingError"]
ReqwestClientError == [variant |-> "ReqwestClientError"]
ParserError == [variant |-> "ParserError"]

Ok(draw) == [kind |-> "Ok", draw |-> draw]
Err(e) == [kind |-> "Err", err |-> e]
\* a panic unwinding out of the call: no value is returned
Panic(what) == [kind |-> "Panic", what |-> what]

\* what one extraction step hands on: the next step with the record so far,
\* or the value the function returns with (or the panic it ends with)
Continue(draw) == [returned |-> FALSE, draw |-> draw]
Return(r) == [returned |-> TRUE, value |-> r]

(***************************************************************************)
(* Documents. Html::parse_document(html) followed by document.select(sel)   *)
(* yields the nodes matching sel in document order; a document is modelled  *)
(* by these four node lists. A date node is its value attribute (Option),   *)
(* a number node its inner_html() text.                                     *)
(***************************************************************************)
FORMATTED_DATE_SELECTOR == "input#formattedFilterDate"
NORMAL_NUMBER_SELECTOR == "actual-numbers__number___normal span"
LUCKY_NUMBER_SELECTOR == "actual-numbers__number___lucky span"
REPLAY_NUMBER_SELECTOR == "actual-numbers__number___replay span"

SelectorNames ==
    {FORMATTED_DATE_SELECTOR, NORMAL_NUMBER_SELECTOR, LUCKY_NUMBER_SELECTOR,
     REPLAY_NUMBER_SELECTOR}

Document(dates, normal, lucky, replay) ==
    [dates |-> dates, normal |-> normal, lucky |-> lucky, replay |-> replay]

select(document, sel) ==
    IF sel = FORMATTED_DATE_SELECTOR THEN document.dates
    ELSE IF sel = NORMAL_NUMBER_SELECTOR THEN document.normal
    ELSE IF sel = LUCKY_NUMBER_SELECTOR THEN document.lucky
    ELSE document.replay

Last(nodes) == nodes[Len(nodes)]

(***************************************************************************)
(* parse_draw_from_html, one operator per fragment.                         *)
(***************************************************************************)
\* mutant: the parsed date is compared but never stored in the record
check_date_keeps_default(im, text, expected, draw) ==
    LET formatted_dates == select(text, FORMATTED_DATE_SELECTOR)
        formatted_date_count == as_u8(Len(formatted_dates))
    IN  IF formatted_date_count # 1
        THEN Return(Err(UnexpectedParsingError(
                 <<"Expected 1 date element in html response, found ",
                   Display(formatted_date_count)>>, text)))
        ELSE LET formatted_date_value == Last(formatted_dates)
             IN  IF ~IsSome(formatted_date_value) THEN Continue(draw)
                 ELSE LET parsed == parse_from_str(Unwrap(formatted_date_value))
                      IN  IF ~IsSome(parsed) THEN Return(Err(DateParsingError))
                          ELSE IF IsSome(expected) /\ Unwrap(parsed) # Unwrap(expected)
                          THEN Return(Err(SuppliedDateHasNoDraw))
                          ELSE Continue(draw)

\* "// Check date"
check_date(im, text, expected, draw) ==
    LET formatted_dates == select(text, FORMATTED_DATE_SELECTOR)
        formatted_date_count == as_u8(Len(formatted_dates))
    IN  IF formatted_date_count # 1
        THEN Return(Err(UnexpectedParsingError(
                 <<"Expected 1 date element in html response, found ",
                   Display(formatted_date_count)>>, text)))
        ELSE LET formatted_date_value == Last(formatted_dates)
             IN  IF ~IsSome(formatted_date_value) THEN Continue(draw)
                 ELSE LET parsed == parse_from_str(Unwrap(formatted_date_value))
                      IN  IF ~IsSome(parsed) THEN Return(Err(DateParsingError))
                          ELSE IF IsSome(expected) /\ Unwrap(parsed) # Unwrap(expected)
                          THEN Return(Err(SuppliedDateHasNoDraw))
                          ELSE Continue([draw EXCEPT !.date = Unwrap(parsed)])

\* mutant: the numbers are stored from the last position down
RECURSIVE fill_numbers_reversed(_, _, _)
fill_numbers_reversed(nodes, i, draw) ==
    IF i > Len(nodes) THEN Continue(draw)
    ELSE LET n == parse_u8(nodes[i])
         IN  IF ~IsSome(n) THEN Return(Panic("unwrap on Err"))
             ELSE IF i > NumbersLen THEN Return(Panic("index out of bounds"))
             ELSE fill_numbers_reversed(nodes, i + 1,
                      [draw EXCEPT !.numbers[NumbersLen + 1 - i] = Unwrap(n)])

\* for (index, element) in ....enumerate() { numbers[index] = ...parse().unwrap() }
RECURSIVE fill_numbers(_, _, _)
fill_numbers(nodes, i, draw) ==
    IF i > Len(nodes) THEN Continue(draw)
    ELSE LET n == parse_u8(nodes[i])
         IN  IF ~IsSome(n) THEN Return(Panic("unwrap on Err"))
             ELSE IF i > NumbersLen THEN Return(Panic("index out of bounds"))
             ELSE fill_numbers(nodes, i + 1, [draw EXCEPT !.numbers[i] = Unwrap(n)])

\* lib.rs: .count() as u8; swiss_lotto.rs: .len()
normal_numbers_count(im, nodes) == IF im = "lib" THEN as_u8(Len(nodes)) ELSE Len(nodes)

\* "// Normal numbers"
normal_numbers(im, text, draw) ==
    LET nodes == select(text, NORMAL_NUMBER_SELECTOR)
        count == normal_numbers_count(im, nodes)
    IN  IF count # 6
        THEN Return(Err(UnexpectedParsingError(
                 <<"Expected 6 normal numbers in html response, found ",
                   Display(count)>>, text)))
        ELSE fill_numbers(nodes, 1, draw)

\* lib.rs: .count() as u8; swiss_lotto.rs: .len()
lucky_numbers_count(im, nodes) == IF im = "lib" THEN as_u8(Len(nodes)) ELSE Len(nodes)

\* "// lucky number"
lucky_number(im, text, draw) ==
    LET nodes == select(text, LUCKY_NUMBER_SELECTOR)
        count == lucky_numbers_count(im, nodes)
    IN  IF count # 1
        THEN Return(Err(UnexpectedParsingError(
                 <<"Expected 1 lucky number in html response, found ",
                   Display(count)>>, text)))
        ELSE LET n == parse_u8(Last(nodes))
             IN  IF ~IsSome(n) THEN Return(Panic("unwrap on Err"))
                 ELSE Continue([draw EXCEPT !.lucky = Unwrap(n)])

\* .count() in lib.rs, .len() in swiss_lotto.rs: no cast in either
replay_numbers_count(im, nodes) == Len(nodes)

\* mutant: a replay text that is no number is returned as Errors::ParserError
replay_number_parser_error(im, text, draw) ==
    LET nodes == select(text, REPLAY_NUMBER_SELECTOR)
        count == replay_numbers_count(im, nodes)
    IN  IF count # 1
        THEN Return(Err(UnexpectedParsingError(
                 <<"Expected 1 replay number in html response, found ",
                   Display(count)>>, text)))
        ELSE LET n == parse_u8(Last(nodes))
             IN  IF ~IsSome(n) THEN Return(Err(ParserError))
                 ELSE Return(Ok([draw EXCEPT !.replay = Unwrap(n)]))

\* "// replay number" and the final Ok(lotto_draw)
replay_number(im, text, draw) ==
    LET nodes == select(text, REPLAY_NUMBER_SELECTOR)
        count == replay_numbers_count(im, nodes)
    IN  IF count # 1
        THEN Return(Err(UnexpectedParsingError(
                 <<"Expected 1 replay number in html response, found ",
                   Display(count)>>, text)))
        ELSE LET n == parse_u8(Last(nodes))
             IN  IF ~IsSome(n) THEN Return(Panic("unwrap on Err"))
                 ELSE Return(Ok([draw EXCEPT !.replay = Unwrap(n)]))

\* The whole function, run without interruption on a day td.
parse_draw_from_html(im, text, expected, td) ==
    LET s1 == check_date(im, text, expected, LottoDraw_default(td))
    IN  IF s1.returned THEN s1.value
        ELSE LET s2 == normal_numbers(im, text, s1.draw)
             IN  IF s2.returned THEN s2.value
                 ELSE LET s3 == lucky_number(im, text, s2.draw)
                      IN  IF s3.returned THEN s3.value
                          ELSE replay_number(im, text, s3.draw).value

(***************************************************************************)
(* The inputs the model draws from.                                         *)
(***************************************************************************)
Threads == {1, 2}

Repeat(x, n) == [i \in 1..n |-> x]

\* the wall-clock date at start; a draw's date D1 is the day after
Today0 == YMD(2023, 1, 31)
D1 == YMD(2023, 2, 1)
D2 == YMD(2023, 2, 2)
ArgDates == {D1, D2}

V1 == <<"0", "1", ".", "0", "2", ".", "2", "0", "2", "3">>
V2 == <<"0", "2", ".", "0", "2", ".", "2", "0", "2", "3">>
V1Short == <<"1", ".", "2", ".", "2", "0", "2", "3">>
VOutOfRange == <<"3", "1", ".", "0", "2", ".", "2", "0", "2", "3">>
VIso == <<"2", "0", "2", "3", "-", "0", "2", "-", "0", "1">>

DateLists ==
    {<<>>, <<None>>, <<Some(V1)>>, <<Some(V2)>>, <<Some(V1Short)>>,
     <<Some(VOutOfRange)>>, <<Some(VIso)>>, <<Some(V1), Some(V2)>>,
     Repeat(Some(V1), 256), Repeat(Some(V1), 257)}

Good6 == << <<"7">>, <<"3">>, <<"4", "2">>, <<"2", "5", "5">>, <<"0">>, <<"1", "1">> >>
Padded6 == << <<"0", "0", "7">>, <<"+", "3">>, <<"4", "2">>, <<"9">>, <<"0">>, <<"1", "1">> >>
Over6 == << <<"7">>, <<"3">>, <<"2", "5", "6">>, <<"9">>, <<"0">>, <<"1", "1">> >>
Empty6 == << <<"7">>, <<"3">>, <<"4">>, <<"9">>, <<"0">>, <<>> >>

NormalLists ==
    {Good6, Padded6, Over6, Empty6, SubSeq(Good6, 1, 5), Append(Good6, <<"8">>),
     Repeat(<<"1">>, 262)}

LuckyLists ==
    {<<>>, << <<"5">> >>, << <<"x">> >>, << <<"5">>, <<"6">> >>, Repeat(<<"5">>, 257)}

ReplayLists ==
    {<<>>, << <<"9">> >>, << <<"-", "1">> >>, << <<"9">>, <<"8">> >>, Repeat(<<"9">>, 257)}

\* a well-formed page
WellFormed == Document(<<Some(V1)>>, Good6, << <<"5">> >>, << <<"9">> >>)

Differences(a, b) ==
    Cardinality({f \in {"dates", "normal", "lucky", "replay"} : a[f] # b[f]})

\* the pages that differ from the well-formed one in at most MaxDifferences fragments
Documents ==
    {doc \in {Document(d, n, l, r) : d \in DateLists, n \in NormalLists,
                                     l \in LuckyLists, r \in ReplayLists} :
        Differences(doc, WellFormed) <= MaxDifferences}

\* the documents of the concurrent runs
FewDocuments ==
    {WellFormed,
     Document(<<None>>, Padded6, << <<"5">> >>, << <<"9">> >>),
     Document(<<Some(V2)>>, Over6, << <<"5">> >>, << <<"9">> >>)}

\* the documents callers and the publisher can supply
pool == IF threads = Threads THEN FewDocuments ELSE Documents

(***************************************************************************)
(* The retrieval operations: the request each one sends.                    *)
(***************************************************************************)
SWISS_LOTTO_DRAW_URL ==
    "https://www.swisslos.ch/en/swisslotto/information/winning-numbers/winning-numbers.html"

get_request == [method |-> "GET", url |-> SWISS_LOTTO_DRAW_URL, form |-> <<>>]

post_request(d, td) ==
    [method |-> "POST", url |-> SWISS_LOTTO_DRAW_URL,
     form |-> << <<"formattedFilterDate", format_dmy(d)>>,
                 <<"filterDate", format_dmy(d)>>,
                 <<"currentDate", format_dmy(td)>> >>]

(***************************************************************************)
(* lazy_static!: a selector is built on its first dereference, once.        *)
(***************************************************************************)
deref_initialised(sel) == [selectors EXCEPT ![sel] = TRUE]

deref_inits(sel) == [inits EXCEPT ![sel] = IF selectors[sel] THEN @ ELSE @ + 1]

(***************************************************************************)
(* State machine.                                                           *)
(***************************************************************************)
InitCommon ==
    /\ impl \in {"lib", "swiss_lotto"}
    /\ today = Today0
    /\ ticks = 0
    /\ selectors = [s \in SelectorNames |-> FALSE]
    /\ inits = [s \in SelectorNames |-> 0]
    /\ pc = [t \in Threads |-> "idle"]
    /\ op = [t \in Threads |-> "none"]
    /\ arg = [t \in Threads |-> None]
    /\ request = [t \in Threads |-> None]
    /\ html = [t \in Threads |-> None]
    /\ date = [t \in Threads |-> None]
    /\ seen_today = [t \in Threads |-> None]
    /\ lotto_draw = [t \in Threads |-> None]
    /\ result = [t \in Threads |-> None]

\* one caller, any document
Init == InitCommon /\ threads = {1}

\* two callers on independent documents
InitConcurrent == InitCommon /\ threads = Threads

\* midnight (UTC) passes
Tick ==
    /\ ticks < MaxTicks
    /\ ticks' = ticks + 1
    /\ today' = succ(today)
    /\ UNCHANGED <<impl, threads, selectors, inits, pc, op, arg,
                   request, html, date, seen_today, lotto_draw, result>>

Invoke(t, name, a, req, expected) ==
    /\ t \in threads
    /\ pc[t] = "idle"
    /\ op' = [op EXCEPT ![t] = name]
    /\ arg' = [arg EXCEPT ![t] = a]
    /\ request' = [request EXCEPT ![t] = Some(req)]
    /\ date' = [date EXCEPT ![t] = expected]
    /\ pc' = [pc EXCEPT ![t] = "send"]
    /\ UNCHANGED <<impl, threads, today, ticks, selectors, inits, html,
                   seen_today, lotto_draw, result>>

get_latest_draw(t) == Invoke(t, "get_latest_draw", None, get_request, None)

get_draw_of_date(t, d) ==
    Invoke(t, "get_draw_of_date", Some(d), post_request(d, today), Some(d))

\* mutant: the lenient operation passes the requested date on, like the strict one
get_previous_draw_strict(t, d) ==
    Invoke(t, "get_previous_draw", Some(d), post_request(d, today), Some(d))

get_previous_draw(t, d) ==
    Invoke(t, "get_previous_draw", Some(d), post_request(d, today), None)

\* pub fn parse_draw_from_html(&self, html, date) of swiss_lotto.rs, called
\* directly (benches/lotto_parser.rs); the function is private in lib.rs
call_parse_draw_from_html(t) ==
    /\ impl = "swiss_lotto"
    /\ t \in threads
    /\ pc[t] = "idle"
    /\ op' = [op EXCEPT ![t] = "parse_draw_from_html"]
    /\ \E text \in pool : html' = [html EXCEPT ![t] = Some(text)]
    /\ \E expected \in {None} \cup {Some(d) : d \in ArgDates} :
           date' = [date EXCEPT ![t] = expected]
    /\ seen_today' = [seen_today EXCEPT ![t] = Some(today)]
    /\ lotto_draw' = [lotto_draw EXCEPT ![t] = Some(LottoDraw_default(today))]
    /\ pc' = [pc EXCEPT ![t] = "date"]
    /\ UNCHANGED <<impl, threads, today, ticks, selectors, inits, arg,
                   request, result>>

\* .send().await? and res.text().await? succeed with a body, which is handed to
\* parse_draw_from_html: Html::parse_document(html) and
\* let mut lotto_draw = LottoDraw::default();
Respond(t) ==
    /\ pc[t] = "send"
    /\ \E body \in pool : html' = [html EXCEPT ![t] = Some(body)]
    /\ request' = [request EXCEPT ![t] = None]
    /\ seen_today' = [seen_today EXCEPT ![t] = Some(today)]
    /\ lotto_draw' = [lotto_draw EXCEPT ![t] = Some(LottoDraw_default(today))]
    /\ pc' = [pc EXCEPT ![t] = "date"]
    /\ UNCHANGED <<impl, threads, today, ticks, selectors, inits,
                   op, arg, date, result>>

\* .send().await? or res.text().await? fails: From<ReqwestError> for Errors
TransportFailure(t) ==
    /\ pc[t] = "send"
    /\ request' = [request EXCEPT ![t] = None]
    /\ result' = [result EXCEPT ![t] = Some(Err(ReqwestClientError))]
    /\ pc' = [pc EXCEPT ![t] = "done"]
    /\ UNCHANGED <<impl, threads, today, ticks, selectors, inits,
                   op, arg, html, date, seen_today, lotto_draw>>

\* mutant: the record under construction is one static shared by all invocations
Fragment_shared_record(t, at, sel, step, then) ==
    /\ pc[t] = at
    /\ selectors' = deref_initialised(sel)
    /\ inits' = deref_inits(sel)
    /\ IF step.returned
       THEN /\ result' = [result EXCEPT ![t] = Some(step.value)]
            /\ pc' = [pc EXCEPT ![t] = "done"]
            /\ UNCHANGED lotto_draw
       ELSE /\ lotto_draw' = [x \in Threads |-> Some(step.draw)]
            /\ pc' = [pc EXCEPT ![t] = then]
            /\ UNCHANGED result
    /\ UNCHANGED <<impl, threads, today, ticks, op, arg, request,
                   html, date, seen_today>>

\* one fragment of the extraction: the selector is dereferenced, the step
\* either returns (or panics) or hands the record to the next fragment
Fragment(t, at, sel, step, then) ==
    /\ pc[t] = at
    /\ selectors' = deref_initialised(sel)
    /\ inits' = deref_inits(sel)
    /\ IF step.returned
       THEN /\ result' = [result EXCEPT ![t] = Some(step.value)]
            /\ pc' = [pc EXCEPT ![t] = "done"]
            /\ UNCHANGED lotto_draw
       ELSE /\ lotto_draw' = [lotto_draw EXCEPT ![t] = Some(step.draw)]
            /\ pc' = [pc EXCEPT ![t] = then]
            /\ UNCHANGED result
    /\ UNCHANGED <<impl, threads, today, ticks, op, arg, request,
                   html, date, seen_today>>

CheckDate(t) ==
    Fragment(t, "date", FORMATTED_DATE_SELECTOR,
             check_date(impl, Unwrap(html[t]), date[t], Unwrap(lotto_draw[t])),
             "normal")

NormalNumbers(t) ==
    Fragment(t, "normal", NORMAL_NUMBER_SELECTOR,
             normal_numbers(impl, Unwrap(html[t]), Unwrap(lotto_draw[t])),
             "lucky")

LuckyNumber(t) ==
    Fragment(t, "lucky", LUCKY_NUMBER_SELECTOR,
             lucky_number(impl, Unwrap(html[t]), Unwrap(lotto_draw[t])),
             "replay")

ReplayNumber(t) ==
    Fragment(t, "replay", REPLAY_NUMBER_SELECTOR,
             replay_number(impl, Unwrap(html[t]), Unwrap(lotto_draw[t])),
             "done")

\* the caller takes the outcome; the invocation's locals are dropped
Finish(t) ==
    /\ pc[t] = "done"
    /\ pc' = [pc EXCEPT ![t] = "idle"]
    /\ op' = [op EXCEPT ![t] = "none"]
    /\ arg' = [arg EXCEPT ![t] = None]
    /\ request' = [request EXCEPT ![t] = None]
    /\ html' = [html EXCEPT ![t] = None]
    /\ date' = [date EXCEPT ![t] = None]
    /\ seen_today' = [seen_today EXCEPT ![t] = None]
    /\ lotto_draw' = [lotto_draw EXCEPT ![t] = None]
    /\ result' = [result EXCEPT ![t] = None]
    /\ UNCHANGED <<impl, threads, today, ticks, selectors, inits>>

Next ==
    \/ Tick
    \/ \E t \in Threads : get_latest_draw(t)
    \/ \E t \in Threads, d \in ArgDates : get_draw_of_date(t, d)
    \/ \E t \in Threads, d \in ArgDates : get_previous_draw(t, d)
    \/ \E t \in Threads : call_parse_draw_from_html(t)
    \/ \E t \in Threads : Respond(t)
    \/ \E t \in Threads : TransportFailure(t)
    \/ \E t \in Threads : CheckDate(t)
    \/ \E t \in Threads : NormalNumbers(t)
    \/ \E t \in Threads : LuckyNumber(t)
    \/ \E t \in Threads : ReplayNumber(t)
    \/ \E t \in Threads : Finish(t)

Spec == Init /\ [][Next]_vars

SpecConcurrent == InitConcurrent /\ [][Next]_vars

(***************************************************************************)
(* Vocabulary of the properties.                                            *)
(***************************************************************************)
\* thread t has run the extraction to its end and holds the outcome
Extracted(t) == pc[t] = "done" /\ IsSome(html[t])

Doc(t) == Unwrap(html[t])
Outcome(t) == Unwrap(result[t])

\* a text of decimal digits and the integer it denotes
DigitsOnly(s) == Len(s) >= 1 /\ \A i \in 1..Len(s) : IsDigit(s[i])

RECURSIVE Decimal(_)
Decimal(s) == IF Len(s) = 0 THEN 0 ELSE 10 * Decimal(SubSeq(s, 1, Len(s) - 1)) + DigitVal(s[Len(s)])

SmallInteger(s) == DigitsOnly(s) /\ Decimal(s) <= 255

\* a text DD.MM.YYYY naming a calendar date, and that date
IsDDMMYYYY(s) ==
    /\ Len(s) = 10
    /\ s[3] = "." /\ s[6] = "."
    /\ \A i \in {1, 2, 4, 5, 7, 8, 9, 10} : IsDigit(s[i])
    /\ ValidYMD(Decimal(SubSeq(s, 7, 10)), Decimal(SubSeq(s, 4, 5)), Decimal(SubSeq(s, 1, 2)))

DateOf(s) == YMD(Decimal(SubSeq(s, 7, 10)), Decimal(SubSeq(s, 4, 5)), Decimal(SubSeq(s, 1, 2)))

\* the number fragments have the required counts
CountsAsRequired(doc) ==
    Len(doc.normal) = 6 /\ Len(doc.lucky) = 1 /\ Len(doc.replay) = 1

\* a number node whose text is no unsigned 8-bit integer
BadNumber(s) == ~IsSome(parse_u8(s))

AllNumbersGood(nodes) == \A i \in 1..Len(nodes) : ~BadNumber(nodes[i])

\* the number fragments are all as a well-formed page has them
NumbersValid(doc) ==
    /\ CountsAsRequired(doc)
    /\ AllNumbersGood(doc.normal) /\ AllNumbersGood(doc.lucky) /\ AllNumbersGood(doc.replay)

\* the document has one date node, and that node passes the date step
DateStepPasses(doc, expected) ==
    /\ Len(doc.dates) = 1
    /\ \/ doc.dates[1] = None
       \/ /\ IsSome(doc.dates[1])
          /\ IsSome(parse_from_str(Unwrap(doc.dates[1])))
          /\ IsSome(expected) => parse_from_str(Unwrap(doc.dates[1])) = expected

IsCountError(r, what) ==
    /\ r.kind = "Err"
    /\ r.err.variant = "UnexpectedParsingError"
    /\ r.err.msg[1] = what

DateCountMessage == "Expected 1 date element in html response, found "
NormalCountMessage == "Expected 6 normal numbers in html response, found "
LuckyCountMessage == "Expected 1 lucky number in html response, found "
ReplayCountMessage == "Expected 1 replay number in html response, found "

(***************************************************************************)
(* C1. When an expected date d is supplied and the document has exactly one *)
(* filter-date node, the call never returns Ok with a record dated other    *)
(* than d, and a document dated otherwise fails with SuppliedDateHasNoDraw. *)
(* The code skips the comparison when the node has no value attribute.      *)
(***************************************************************************)
C1_SuppliedDateEnforced ==
    \A t \in Threads :
        (Extracted(t) /\ Len(Doc(t).dates) = 1 /\ IsSome(date[t])) =>
            /\ Outcome(t).kind = "Ok" => Outcome(t).draw.date = Unwrap(date[t])
            /\ ( /\ IsSome(Doc(t).dates[1])
                 /\ IsSome(parse_from_str(Unwrap(Doc(t).dates[1])))
                 /\ parse_from_str(Unwrap(Doc(t).dates[1])) # date[t] )
               => Outcome(t) = Err(SuppliedDateHasNoDraw)

(***************************************************************************)
(* C2. A well-formed document (one date node with a valid DD.MM.YYYY value, *)
(* six main numbers, one lucky, one replay, all integers in 0..255) parsed  *)
(* without an expected date yields Ok with the date and the numbers of the  *)
(* document, the main numbers in document order.                            *)
(***************************************************************************)
C2_Precondition(t) ==
    /\ Extracted(t)
    /\ date[t] = None
    /\ Len(Doc(t).dates) = 1
    /\ IsSome(Doc(t).dates[1])
    /\ IsDDMMYYYY(Unwrap(Doc(t).dates[1]))
    /\ CountsAsRequired(Doc(t))
    /\ \A i \in 1..6 : SmallInteger(Doc(t).normal[i])
    /\ SmallInteger(Doc(t).lucky[1])
    /\ SmallInteger(Doc(t).replay[1])

C2_WellFormedExtractsFields ==
    \A t \in Threads :
        C2_Precondition(t) =>
            Outcome(t) = Ok([date |-> DateOf(Unwrap(Doc(t).dates[1])),
                             numbers |-> [i \in 1..6 |-> Decimal(Doc(t).normal[i])],
                             lucky |-> Decimal(Doc(t).lucky[1]),
                             replay |-> Decimal(Doc(t).replay[1])])

C2_Witness ==
    \E t \in Threads :
        /\ C2_Precondition(t)
        /\ Outcome(t).kind = "Ok"
        /\ Outcome(t).draw.numbers = <<7, 3, 42, 255, 0, 11>>

(***************************************************************************)
(* C3. On a document that passes the date step, the first number fragment   *)
(* whose node count is not the required one (6, 1, 1) makes the call return *)
(* UnexpectedParsingError for that fragment; a wrong count never gives Ok   *)
(* and never a panic. In lib.rs the main and lucky counts are cast to u8.   *)
(***************************************************************************)
C3_WrongCountIsStructuralMismatch ==
    \A t \in Threads :
        (Extracted(t) /\ DateStepPasses(Doc(t), date[t])) =>
            /\ Len(Doc(t).normal) # 6 => IsCountError(Outcome(t), NormalCountMessage)
            /\ (Len(Doc(t).normal) = 6 /\ AllNumbersGood(Doc(t).normal)
                    /\ Len(Doc(t).lucky) # 1)
               => IsCountError(Outcome(t), LuckyCountMessage)
            /\ (Len(Doc(t).normal) = 6 /\ AllNumbersGood(Doc(t).normal)
                    /\ Len(Doc(t).lucky) = 1 /\ AllNumbersGood(Doc(t).lucky)
                    /\ Len(Doc(t).replay) # 1)
               => IsCountError(Outcome(t), ReplayCountMessage)

(***************************************************************************)
(* C4. A document whose number n of filter-date nodes is not 1 fails with   *)
(* UnexpectedParsingError whose message states n and which carries the      *)
(* input text. The code compares and reports n as u8.                       *)
(***************************************************************************)
C4_DateCountMismatchReported ==
    \A t \in Threads :
        (Extracted(t) /\ Len(Doc(t).dates) # 1) =>
            Outcome(t) = Err(UnexpectedParsingError(
                             <<DateCountMessage, Display(Len(Doc(t).dates))>>, Doc(t)))

TextOfArg(d) == IF d = D1 THEN V1 ELSE V2

\* the days the wall clock has shown so far
RECURSIVE DaysFrom(_, _)
DaysFrom(d, n) == IF n = 0 THEN {d} ELSE {d} \cup DaysFrom(succ(d), n - 1)

\* the date a body displays, when it has one filter-date node with a date
BodyDate(doc) ==
    IF Len(doc.dates) = 1 /\ IsSome(doc.dates[1])
    THEN parse_from_str(Unwrap(doc.dates[1]))
    ELSE None

IsDatePost(t) ==
    /\ IsSome(request[t])
    /\ Unwrap(request[t]).method = "POST"
    /\ Unwrap(request[t]).url = SWISS_LOTTO_DRAW_URL
    /\ Len(Unwrap(request[t]).form) = 3
    /\ Unwrap(request[t]).form[1] = <<"formattedFilterDate", TextOfArg(Unwrap(arg[t]))>>
    /\ Unwrap(request[t]).form[2] = <<"filterDate", TextOfArg(Unwrap(arg[t]))>>
    /\ Unwrap(request[t]).form[3][1] = "currentDate"
    /\ \E day \in DaysFrom(Today0, ticks) :
           /\ IsDDMMYYYY(Unwrap(request[t]).form[3][2])
           /\ DateOf(Unwrap(request[t]).form[3][2]) = day

C6_StrictAndLenientDiffer ==
    \A t \in Threads :
        /\ op[t] = "get_draw_of_date" =>
               /\ pc[t] = "send" => IsDatePost(t)
               /\ date[t] = arg[t]
               /\ Extracted(t) =>
                      /\ (IsSome(BodyDate(Doc(t))) /\ BodyDate(Doc(t)) # arg[t])
                             => Outcome(t) = Err(SuppliedDateHasNoDraw)
                      /\ Outcome(t).kind = "Ok" =>
                             Outcome(t) = parse_draw_from_html(impl, Doc(t), None,
                                                               Unwrap(seen_today[t]))
        /\ op[t] = "get_previous_draw" =>
               /\ pc[t] = "send" => IsDatePost(t)
               /\ date[t] = None
               /\ Extracted(t) =>
                      /\ Outcome(t) # Err(SuppliedDateHasNoDraw)
                      /\ (IsSome(BodyDate(Doc(t))) /\ NumbersValid(Doc(t)))
                             => /\ Outcome(t).kind = "Ok"
                                /\ Outcome(t).draw.date = Unwrap(BodyDate(Doc(t)))

C6_Witness ==
    \E t \in Threads :
        /\ op[t] = "get_previous_draw"
        /\ arg[t] = Some(D2)
        /\ Extracted(t)
        /\ BodyDate(Doc(t)) = Some(D1)
        /\ Outcome(t).kind = "Ok"
        /\ Outcome(t).draw.date = D1
        /\ parse_draw_from_html(impl, Doc(t), arg[t], Unwrap(seen_today[t]))
               = Err(SuppliedDateHasNoDraw)

(***************************************************************************)
(* C7. As claimed: two extractions of equal html with equal expected date   *)
(* end with equal outcomes, whatever the wall clock showed.                 *)
(***************************************************************************)
SameInputs(a, b) ==
    /\ a # b
    /\ Extracted(a) /\ Extracted(b)
    /\ html[a] = html[b]
    /\ date[a] = date[b]

C7_PureInHtmlAndDate ==
    \A a, b \in Threads : SameInputs(a, b) => result[a] = result[b]

(***************************************************************************)
(* C7, amended. The outcome is a function of html, expected date and the    *)
(* date LottoDraw::default() reads: equal on all three, two extractions end *)
(* equal; and when the document has no filter-date node or its last one     *)
(* carries a value attribute, they end equal on any two days.               *)
(***************************************************************************)
DateFromDocument(doc) == Len(doc.dates) = 0 \/ IsSome(Last(doc.dates))

C7_PureInHtmlDateAndDay ==
    \A a, b \in Threads :
        SameInputs(a, b) =>
            /\ seen_today[a] = seen_today[b] => result[a] = result[b]
            /\ DateFromDocument(Doc(a)) => result[a] = result[b]

C7_Witness ==
    \E a, b \in Threads :
        /\ SameInputs(a, b)
        /\ seen_today[a] # seen_today[b]
        /\ DateFromDocument(Doc(a))
        /\ Outcome(a).kind = "Ok"
        /\ result[a] = result[b]

(***************************************************************************)
(* C8. Extractions running concurrently on their own documents end as they  *)
(* would run alone: each outcome is the one the uninterrupted function      *)
(* gives for the thread's own html, expected date and day; every selector   *)
(* of the lazy table is built at most once and stays built.                 *)
(***************************************************************************)
C8_ConcurrentAsSequential ==
    /\ \A t \in Threads :
           Extracted(t) =>
               Outcome(t) = parse_draw_from_html(impl, Doc(t), date[t], Unwrap(seen_today[t]))
    /\ \A sel \in SelectorNames :
           /\ inits[sel] <= 1
           /\ selectors[sel] <=> inits[sel] = 1

C8_Witness ==
    /\ Extracted(1) /\ Extracted(2)
    /\ html[1] # html[2]
    /\ Outcome(1).kind = "Ok"
    /\ Outcome(2).kind = "Ok"
    /\ Outcome(1).draw # Outcome(2).draw

(***************************************************************************)
(* C9. The outcome is that of the earliest violated step, in the order date *)
(* count, date text, supplied date, main numbers, lucky, replay, and Ok     *)
(* only when no step is violated. The u8 casts of C4 and C3 let a document  *)
(* with 257 date nodes pass the first step.                                 *)
(***************************************************************************)
FirstViolation(doc, expected) ==
    IF Len(doc.dates) # 1 THEN "date count"
    ELSE IF IsSome(doc.dates[1]) /\ ~IsSome(parse_from_str(Unwrap(doc.dates[1])))
    THEN "date text"
    ELSE IF IsSome(doc.dates[1]) /\ IsSome(expected)
            /\ parse_from_str(Unwrap(doc.dates[1])) # expected
    THEN "supplied date"
    ELSE IF Len(doc.normal) # 6 THEN "normal count"
    ELSE IF ~AllNumbersGood(doc.normal) THEN "number text"
    ELSE IF Len(doc.lucky) # 1 THEN "lucky count"
    ELSE IF ~AllNumbersGood(doc.lucky) THEN "number text"
    ELSE IF Len(doc.replay) # 1 THEN "replay count"
    ELSE IF ~AllNumbersGood(doc.replay) THEN "number text"
    ELSE "none"

StepOf(r) ==
    IF r.kind = "Ok" THEN "none"
    ELSE IF r.kind = "Panic" THEN "number text"
    ELSE IF r.err.variant = "DateParsingError" THEN "date text"
    ELSE IF r.err.variant = "SuppliedDateHasNoDraw" THEN "supplied date"
    ELSE IF r.err.variant # "UnexpectedParsingError" THEN "other"
    ELSE IF r.err.msg[1] = DateCountMessage THEN "date count"
    ELSE IF r.err.msg[1] = NormalCountMessage THEN "normal count"
    ELSE IF r.err.msg[1] = LuckyCountMessage THEN "lucky count"
    ELSE "replay count"

C9_EarliestViolationDecides ==
    \A t \in Threads :
        Extracted(t) => StepOf(Outcome(t)) = FirstViolation(Doc(t), date[t])

(***************************************************************************)
(* C10. As claimed: with all fragment counts as required, a number node     *)
(* whose text is no unsigned 8-bit integer makes the call panic.            *)
(***************************************************************************)
SomeBadNumber(doc) ==
    ~(AllNumbersGood(doc.normal) /\ AllNumbersGood(doc.lucky) /\ AllNumbersGood(doc.replay))

C10_BadNumberPanics ==
    \A t \in Threads :
        (Extracted(t) /\ Len(Doc(t).dates) = 1 /\ CountsAsRequired(Doc(t))
             /\ SomeBadNumber(Doc(t)))
        => Outcome(t).kind = "Panic"

(***************************************************************************)
(* C10, amended. With all fragment counts as required and the date step     *)
(* passed, a number node whose text is no unsigned 8-bit integer makes the  *)
(* call panic; and an Errors value is only ever returned for a count or a   *)
(* date, never ParserError and never for a number's text.                   *)
(***************************************************************************)
C10_BadNumberPanicsAfterDate ==
    \A t \in Threads :
        Extracted(t) =>
            /\ (DateStepPasses(Doc(t), date[t]) /\ CountsAsRequired(Doc(t))
                    /\ SomeBadNumber(Doc(t)))
               => Outcome(t) = Panic("unwrap on Err")
            /\ Outcome(t).kind = "Err" =>
                   /\ Outcome(t).err.variant \in
                          {"UnexpectedParsingError", "DateParsingError", "SuppliedDateHasNoDraw"}
                   /\ ~(DateStepPasses(Doc(t), date[t]) /\ CountsAsRequired(Doc(t)))

C10_Witness ==
    \E t \in Threads :
        /\ Extracted(t)
        /\ DateStepPasses(Doc(t), date[t]) /\ CountsAsRequired(Doc(t))
        /\ AllNumbersGood(Doc(t).normal)
        /\ BadNumber(Doc(t).lucky[1])
        /\ Outcome(t).kind = "Panic"

====
